---- MODULE Spec2Model ----
(***************************************************************************)
(* Itinerary synthesis pipeline of the GreenTrip backend                   *)
(* (backend/services/itinerary_generator.py and the services it calls).    *)
(*                                                                         *)
(* Units.  Money is kept in cents.  Emissions, distances and scores are    *)
(* exact rationals <<n, d>> (d > 0, lowest terms); the code uses binary    *)
(* floats, so round() is modelled on the exact value (half-to-even).       *)
(* An absent / None value is the empty tuple.                              *)
(***************************************************************************)
EXTENDS Integers, Sequences, FiniteSets, TLC

VARIABLES
    request,        \* ItineraryGenerationRequest received by generate_itinerary
    env,            \* the answers the outside world may give to this request
    pc,             \* position of generate_itinerary
    trip,           \* (start_date, end_date, trip_days) of _resolve_trip_dates
    coords,         \* latitude / longitude used by the fetches
    codes,          \* origin_code / destination_code
    fetch,          \* per provider: idle, inflight, done
    outcome,        \* per provider: how its fetch ended
    flights,        \* List[FlightOption]
    hotels,         \* List[LodgingOption]
    weather,        \* (weather_daily, daypart_weather)
    attractions,    \* List[PointOfInterest]
    prompt,         \* arguments build_dedalus_prompt was called with
    synth,          \* states the plan synthesizer went through
    result,         \* GreenTripItineraryResponse returned, or None
    error,          \* exception that left generate_itinerary, or None
    probe,          \* inputs / outputs of a function under test
    reply,          \* what the generative model answered, once it has
    cache           \* _itinerary_cache entry written for this request, or None

vars == <<request, env, pc, trip, coords, codes, fetch, outcome, flights,
          hotels, weather, attractions, prompt, synth, result, error, probe,
          reply, cache>>

pipeVars == <<request, env, pc, trip, coords, codes, fetch, outcome, flights,
              hotels, weather, attractions, prompt, synth, result, error,
              reply, cache>>

-----------------------------------------------------------------------------
(* Bounds of the exploration *)

\* largest num_days a request asks for
MaxDays == 3
\* longest offer list a provider answers with
MaxOffers == 2
\* probe distances 0, 250, ..., 250 * MaxSteps km
MaxSteps == 16
\* probe distances within MaxDelta km of a band edge
MaxDelta == 2
\* date.today(), as a day ordinal
Today == 0
\* latest time.time() (seconds) at which a token is asked for
MaxClock == 80

-----------------------------------------------------------------------------
(* Generic helpers *)

None == <<>>
Some(x) == <<x>>
IsNone(x) == x = None

Max(a, b) == IF a >= b THEN a ELSE b
Min(a, b) == IF a <= b THEN a ELSE b
Abs(a) == IF a < 0 THEN 0 - a ELSE a

RECURSIVE GCD(_, _)
GCD(a, b) == IF b = 0 THEN a ELSE GCD(b, a % b)

\* rationals in lowest terms
Q(n, d) == LET g == GCD(Abs(n), d) IN <<n \div g, d \div g>>
QInt(k) == <<k, 1>>
QAdd(a, b) == Q(a[1] * b[2] + b[1] * a[2], a[2] * b[2])
QSub(a, b) == Q(a[1] * b[2] - b[1] * a[2], a[2] * b[2])
QMulInt(a, k) == Q(a[1] * k, a[2])
QDivInt(a, k) == Q(a[1], a[2] * k)
QLe(a, b) == a[1] * b[2] <= b[1] * a[2]
QLt(a, b) == a[1] * b[2] < b[1] * a[2]
QMax(a, b) == IF QLe(b, a) THEN a ELSE b
QMin(a, b) == IF QLe(a, b) THEN a ELSE b

\* Python truthiness of an Optional[float]
Falsy(x) == IsNone(x) \/ x[1] = 0

\* round(a / b) to the nearest integer, ties to even (a >= 0, b > 0)
RoundHalfEven(a, b) ==
    LET q == a \div b
        r == a % b
    IN  IF 2 * r < b THEN q
        ELSE IF 2 * r > b THEN q + 1
        ELSE IF q % 2 = 0 THEN q ELSE q + 1

RECURSIVE SeqSum(_)
SeqSum(s) == IF s = <<>> THEN 0 ELSE Head(s) + SeqSum(Tail(s))

FirstN(s, n) == SubSeq(s, 1, Min(n, Len(s)))

SeqsUpTo(S, n) == UNION {[1..k -> S] : k \in 0..n}

-----------------------------------------------------------------------------
(* amadeus_flights.py: distance and emission model *)

\* airports of AIRPORT_COORDS that the explored routes touch
KnownAirports == {"JFK", "CDG", "FCO"}

\* _haversine_km on the AIRPORT_COORDS entries, rounded to whole km
HaversineKm(a, b) ==
    IF a = b THEN 0
    ELSE IF {a, b} = {"JFK", "CDG"} THEN 5833
    ELSE IF {a, b} = {"JFK", "FCO"} THEN 6866
    ELSE 1101

\* _segment_distance_km: None unless both airports have coordinates
SegmentDistanceKm(seg) ==
    IF seg.origin \in KnownAirports /\ seg.destination \in KnownAirports
    THEN Some(HaversineKm(seg.origin, seg.destination))
    ELSE None

\* _total_distance_km, as a rational number of km
TotalDistanceKm(segments) ==
    LET dist == [i \in DOMAIN segments |-> SegmentDistanceKm(segments[i])]
        total == SeqSum([i \in DOMAIN segments |->
                            IF IsNone(dist[i]) THEN 0 ELSE dist[i][1]])
        missing == \E i \in DOMAIN segments : IsNone(dist[i])
        minutes == SeqSum([i \in DOMAIN segments |-> segments[i].minutes])
        \* duration_hours * 800 = minutes * 800 / 60
        byDuration == IF total = 0 /\ missing /\ minutes > 0
                      THEN QMax(QInt(500), Q(minutes * 40, 3))
                      ELSE QInt(total)
    IN  IF byDuration[1] = 0 THEN QInt(1500) ELSE byDuration

\* _base_emission_factor without the forcing index, in g CO2 per passenger-km
BandFactor(distance) ==
    IF QLe(distance, QInt(1500)) THEN 158
    ELSE IF QLe(distance, QInt(3500)) THEN 111
    ELSE 102

\* radiative forcing index 1.9, in tenths
ForcingIndexTenths == 19

\* _base_emission_factor, in 1/10000 kg per passenger-km
BaseEmissionFactor(distance) == BandFactor(distance) * ForcingIndexTenths

CabinRanks == <<"economy", "premium economy", "business", "first">>

\* business and first swapped against premium economy
EmissionMultiplier_Swapped(cabin) ==
    CASE cabin = "economy" -> 100
      [] cabin = "premium economy" -> 150
      [] cabin = "business" -> 115
      [] cabin = "first" -> 200
      [] OTHER -> 100

\* CABIN_VARIANTS[...]["emission_multiplier"], in hundredths
EmissionMultiplier(cabin) ==
    CASE cabin = "economy" -> 100
      [] cabin = "premium economy" -> 115
      [] cabin = "business" -> 150
      [] cabin = "first" -> 200
      [] OTHER -> 100

\* CABIN_VARIANTS[...]["price_multiplier"], in hundredths
PriceMultiplier(cabin) ==
    CASE cabin = "economy" -> 100
      [] cabin = "premium economy" -> 125
      [] cabin = "business" -> 180
      [] cabin = "first" -> 260
      [] OTHER -> 100

\* _estimate_emissions: kg CO2 rounded to one decimal.  The quotient
\* distance * factor * multiplier / 10^5 (tenths of a kg) is reduced before
\* it is multiplied out.
EstimateEmissions(distance, cabin) ==
    LET a == BaseEmissionFactor(distance) * EmissionMultiplier(cabin)
        d == distance[2] * 100000
        g1 == GCD(a, d)
        g2 == GCD(distance[1], d \div g1)
    IN  Q(RoundHalfEven((distance[1] \div g2) * (a \div g1), (d \div g1) \div g2), 10)

-----------------------------------------------------------------------------
(* amadeus_flights.py: synthetic offers *)

\* options.sort(key=price): stable insertion sort, ascending price
RECURSIVE InsertByPrice(_, _)
InsertByPrice(sorted, opt) ==
    IF sorted = <<>> THEN <<opt>>
    ELSE IF opt.price < Head(sorted).price
         THEN <<opt>> \o sorted
         ELSE <<Head(sorted)>> \o InsertByPrice(Tail(sorted), opt)

RECURSIVE SortByPrice(_)
SortByPrice(opts) ==
    IF opts = <<>> THEN <<>>
    ELSE InsertByPrice(SortByPrice(SubSeq(opts, 1, Len(opts) - 1)), opts[Len(opts)])

\* str.upper() on the names an airport code can take
Upper(code) == IF code = "atlantis" THEN "ATLANTIS" ELSE code

FallbackCarriers == <<"AA", "DL", "UA", "BA", "AF">>
\* base prices of which one is 1.25 times another
FallbackBasePrices_Tie == <<400, 429, 475, 500, 559>>

FallbackBasePrices == <<399, 429, 475, 515, 559>>
FallbackDurations == <<380, 420, 455, 495, 540>>
FallbackReturnDurations == <<395, 430, 465, 505, 545>>
\* depart_times and ret_dep_times, as minutes of the day
FallbackDepartTimes == <<390, 555, 765, 920, 1210>>
FallbackReturnDepartTimes == <<430, 660, 815, 1045, 1275>>

\* a datetime: the date it falls on or counts from, and the minutes after
\* that date's midnight
At(date, minute) == <<date, minute>>

\* _fallback_flights, given the codes its own resolve_airport_code calls give;
\* return_date is always passed by generate_itinerary
FallbackFlights(origin_code, destination_code) ==
    LET segs(i) ==
            << [origin |-> origin_code, destination |-> destination_code,
                minutes |-> FallbackDurations[i],
                departure |-> At("departure_date", FallbackDepartTimes[i]),
                arrival |-> At("departure_date",
                               FallbackDepartTimes[i] + FallbackDurations[i]),
                carrier |-> FallbackCarriers[i]],
               [origin |-> destination_code, destination |-> origin_code,
                minutes |-> FallbackReturnDurations[i],
                departure |-> At("return_date", FallbackReturnDepartTimes[i]),
                arrival |-> At("return_date",
                               FallbackReturnDepartTimes[i] + FallbackReturnDurations[i]),
                carrier |-> FallbackCarriers[(i % 5) + 1]] >>
        option(i, c) ==
            [price |-> FallbackBasePrices[i] * PriceMultiplier(CabinRanks[c]),
             segments |-> segs(i),
             emissions_kg |-> EstimateEmissions(TotalDistanceKm(segs(i)), CabinRanks[c]),
             cabin |-> CabinRanks[c],
             source |-> "fallback"]
        options == [k \in 1..20 |-> option(((k - 1) \div 4) + 1, ((k - 1) % 4) + 1)]
    IN  SortByPrice(options)

\* well-formed offers the flight provider may answer with
ProviderOffers ==
    { [price |-> 45000, cabin |-> "economy",
       segments |-> << [origin |-> "JFK", destination |-> "CDG",
                        minutes |-> 440,
                        departure |-> At("departure_date", 600),
                        arrival |-> At("departure_date", 1040),
                        carrier |-> "AF"] >>],
      [price |-> 30000, cabin |-> "business",
       segments |-> << [origin |-> "JFK", destination |-> "XXX",
                        minutes |-> 120,
                        departure |-> At("departure_date", 480),
                        arrival |-> At("departure_date", 600),
                        carrier |-> "DL"],
                       [origin |-> "XXX", destination |-> "CDG",
                        minutes |-> 400,
                        departure |-> At("departure_date", 700),
                        arrival |-> At("departure_date", 1100),
                        carrier |-> "DL"] >>] }

\* an offer whose "itineraries" key is missing: .get() defaults give no segments
OfferWithoutItineraries == [price |-> 50000, cabin |-> "economy", segments |-> <<>>]

\* fetch_flights_amadeus lines 211-250: one FlightOption per offer
OfferToFlight(offer) ==
    [price |-> offer.price,
     segments |-> offer.segments,
     emissions_kg |-> EstimateEmissions(TotalDistanceKm(offer.segments), offer.cabin),
     cabin |-> offer.cabin,
     source |-> "provider"]

\* failures that leave fetch_flights_amadeus without a payload
FlightCallFailures == {"no_credentials", "token_failure", "timeout", "http_error"}

\* answers of the flight provider.  raises: reading the payload raises
\* (for instance a date that is not ISO).  A malformed payload either raises
\* or carries an offer that the .get() defaults let through.
FlightAnswers ==
    {[kind |-> k, offers |-> <<>>, raises |-> FALSE] : k \in FlightCallFailures}
    \cup {[kind |-> "malformed", offers |-> <<>>, raises |-> TRUE]}
    \cup {[kind |-> "malformed", offers |-> <<OfferWithoutItineraries>> \o o, raises |-> FALSE] :
            o \in SeqsUpTo(ProviderOffers, MaxOffers - 1)}
    \cup {[kind |-> "empty", offers |-> <<>>, raises |-> FALSE]}
    \cup {[kind |-> "ok", offers |-> o, raises |-> FALSE] :
            o \in SeqsUpTo(ProviderOffers, MaxOffers) \ {<<>>}}

\* fetch_flights_amadeus: what it returns for an answer
FetchFlights(answer, origin_code, destination_code) ==
    IF answer.kind \in FlightCallFailures \/ answer.raises \/ answer.offers = <<>>
    THEN FallbackFlights(origin_code, destination_code)
    ELSE [i \in DOMAIN answer.offers |-> OfferToFlight(answer.offers[i])]

-----------------------------------------------------------------------------
(* amadeus_hotels.py *)

FallbackHotelRates == <<18900, 21500, 24500, 26000, 30500>>

\* _fallback_hotels
FallbackHotels ==
    [i \in 1..5 |-> [nightly_rate |-> FallbackHotelRates[i],
                     emissions_kg |-> None,
                     source |-> "fallback"]]

HotelFailures == {"token_failure", "timeout", "http_error", "malformed", "empty"}

\* stay totals (cents) of the offers the lodging provider may answer with
ProviderStayTotals == {40000, 55000}

HotelAnswers ==
    {[kind |-> k, totals |-> <<>>] : k \in HotelFailures}
    \cup {[kind |-> "ok", totals |-> t] : t \in SeqsUpTo(ProviderStayTotals, MaxOffers) \ {<<>>}}

\* fetch_hotels_amadeus; nights = max((check_out - check_in).days, 1)
FetchHotels(answer, start_date, end_date) ==
    LET nights == Max(end_date - start_date, 1)
    IN  IF answer.kind = "ok" /\ answer.totals # <<>>
        THEN [i \in DOMAIN answer.totals |->
                [nightly_rate |-> RoundHalfEven(answer.totals[i], nights),
                 emissions_kg |-> None,
                 source |-> "provider"]]
        ELSE FallbackHotels

-----------------------------------------------------------------------------
(* openweather_service.py and google_places_service.py *)

WeatherFailures == {"no_key", "timeout", "http_error", "malformed"}

\* dates of the trip window, in order
DatesOf(start_date, end_date) == [i \in 1..(end_date - start_date + 1) |-> start_date + i - 1]

\* _fallback_weather / _fallback_daypart_weather
FallbackWeather(start_date, end_date) ==
    LET days == DatesOf(start_date, end_date)
    IN  [i \in DOMAIN days |-> [date |-> days[i], source |-> "fallback"]]

\* dates the forecast list of an answer has entries for
Covered(answer, start_date, end_date) ==
    CASE answer.covered = "all" -> start_date..end_date
      [] answer.covered = "start" -> {start_date}
      [] OTHER -> {}

\* dates without forecast entries left out instead of filled in
FetchWeather_SkipMissing(answer, start_date, end_date) ==
    LET days == DatesOf(start_date, end_date)
        perDay == [i \in DOMAIN days |-> [date |-> days[i], source |-> "provider"]]
        kept == SelectSeq(perDay,
                          LAMBDA d : d.date \in Covered(answer, start_date, end_date))
    IN  IF answer.kind = "ok" /\ kept # <<>>
        THEN [daily |-> kept, dayparts |-> kept]
        ELSE [daily |-> FallbackWeather(start_date, end_date),
              dayparts |-> FallbackWeather(start_date, end_date)]

\* fetch_weather_openweather
FetchWeather(answer, start_date, end_date) ==
    LET days == DatesOf(start_date, end_date)
        perDay == [i \in DOMAIN days |->
                     [date |-> days[i],
                      source |-> IF days[i] \in Covered(answer, start_date, end_date)
                                 THEN "provider" ELSE "missing"]]
    IN  IF answer.kind = "ok" /\ perDay # <<>>
        THEN [daily |-> perDay, dayparts |-> perDay]
        ELSE [daily |-> FallbackWeather(start_date, end_date),
              dayparts |-> FallbackWeather(start_date, end_date)]

WeatherAnswers ==
    {[kind |-> k, covered |-> "none"] : k \in WeatherFailures}
    \cup {[kind |-> "ok", covered |-> c] : c \in {"none", "start", "all"}}

AttractionFailures == {"no_key", "timeout", "http_error", "malformed", "empty"}

AttractionAnswers ==
    {[kind |-> k, count |-> 0] : k \in AttractionFailures}
    \cup {[kind |-> "ok", count |-> 3]}

\* fetch_attractions_google: _fallback_pois is a single synthetic attraction
FetchAttractions(answer) ==
    IF answer.kind = "ok" /\ answer.count > 0
    THEN [count |-> Min(answer.count, 5), source |-> "provider"]
    ELSE [count |-> 1, source |-> "fallback"]

-----------------------------------------------------------------------------
(* climatiq_service.py *)

\* estimate_flight_emissions / estimate_hotel_emissions: None when the key is
\* missing, the call fails or co2e is 0; otherwise the co2e of the answer (kg)
CarbonAnswers == {None, QInt(40)}

\* estimate_flight_emissions_fallback(origin, destination, passengers)
EstimateFlightEmissionsFallback(passengers) == QInt(200 * passengers)

\* 15 kg for the stay instead of per night
EstimateHotelEmissionsFallback_Flat(nights) == QInt(15)

\* estimate_hotel_emissions_fallback(nights)
EstimateHotelEmissionsFallback(nights) == QInt(15 * nights)

-----------------------------------------------------------------------------
(* dedalus_client.py: the text of the model and what json.loads makes of it *)

\* JSON scalars of the parsed response
JAbsent == [t |-> "absent", v |-> <<0, 1>>]
JBad == [t |-> "bad", v |-> <<0, 1>>]          \* a string, null, a list ...
JNum(q) == [t |-> "num", v |-> q]

\* one element of "days": a dict without "day", a dict with "day": k, or
\* something DedalusItineraryDay cannot be built from
DayAuto == [kind |-> "auto", day |-> 0]
DayNum(k) == [kind |-> "num", day |-> k]
DayInvalid == [kind |-> "invalid", day |-> 0]

DaysAbsent == [kind |-> "absent", entries |-> <<>>]
DaysNonList == [kind |-> "nonlist", entries |-> <<>>]     \* null or a number
DaysString == [kind |-> "string", entries |-> <<>>]       \* a non-empty string
DaysList(entries) == [kind |-> "list", entries |-> entries]

TotalsAbsent == [kind |-> "absent", cost |-> JAbsent, emissions_kg |-> JAbsent]
TotalsNonDict == [kind |-> "nondict", cost |-> JAbsent, emissions_kg |-> JAbsent]
TotalsDict(c, e) == [kind |-> "dict", cost |-> c, emissions_kg |-> e]

\* day lists the model may answer with, up to one entry more than MaxDays
ModelDayLists ==
    {<<>>}
    \cup {[i \in 1..n |-> DayAuto] : n \in 1..(MaxDays + 1)}
    \cup {[i \in 1..n |-> DayNum(i)] : n \in 1..(MaxDays + 1)}
    \cup {[i \in 1..n |-> DayNum(n + 1 - i)] : n \in 1..(MaxDays + 1)}
    \cup {[i \in 1..n |-> IF i = n THEN DayInvalid ELSE DayAuto] : n \in 1..(MaxDays + 1)}

ModelDays == {DaysAbsent, DaysNonList, DaysString} \cup {DaysList(l) : l \in ModelDayLists}

\* total emissions (kg) and cost (cents) the model may report
ModelEmissions == {QInt(0 - 50), QInt(0), QInt(500), QInt(1000), QInt(2000), Q(1234, 10)}

ModelTotals ==
    {TotalsAbsent, TotalsNonDict}
    \cup {TotalsDict(JNum(QInt(123400)), JNum(e)) : e \in ModelEmissions}
    \cup {TotalsDict(JNum(QInt(123400)), e) : e \in {JAbsent, JBad}}
    \cup {TotalsDict(c, JNum(QInt(500))) : c \in {JAbsent, JBad}}

ModelPayloads ==
    [days : ModelDays, totals : ModelTotals, rationale : {"text"}]
    \cup [days : {DaysList(<<DayAuto>>)}, totals : {TotalsAbsent}, rationale : {"absent", "null"}]

NoPayload == [days |-> DaysAbsent, totals |-> TotalsAbsent, rationale |-> "absent"]

\* final_output as tokens: "{" and "}" are braces, "k" is the content of an
\* object, "x" is prose, "v" is a JSON value that is not an object
TextObject == <<"{", "k", "}">>
TextProseObject == <<"x", "{", "k", "}", "x">>
TextProseObjectBrace == <<"x", "{", "k", "}", "x", "}">>
TextProse == <<"x">>
TextValue == <<"v">>
TextCloseOpen == <<"x", "}", "{">>

ModelTexts == {TextObject, TextProseObject, TextProseObjectBrace, TextProse,
               TextValue, TextCloseOpen}

\* nesting depth after the first n tokens
RECURSIVE Depth(_, _)
Depth(text, n) ==
    IF n = 0 THEN 0
    ELSE Depth(text, n - 1) + (IF text[n] = "{" THEN 1 ELSE IF text[n] = "}" THEN 0 - 1 ELSE 0)

\* json.loads accepts the tokens as one object
IsJsonObject(text) ==
    /\ Len(text) >= 2
    /\ text[1] = "{"
    /\ \A i \in DOMAIN text : text[i] \in {"{", "}", "k"}
    /\ \A i \in 1..(Len(text) - 1) : Depth(text, i) >= 1
    /\ Depth(text, Len(text)) = 0

\* re.search(r'\{.*\}', text, re.DOTALL): first "{" up to the last "}"
RegexSpan(text) ==
    LET opens == {i \in DOMAIN text : text[i] = "{"}
        closes == {i \in DOMAIN text : text[i] = "}"}
        first == CHOOSE i \in opens : \A j \in opens : i <= j
        last == CHOOSE i \in closes : \A j \in closes : j <= i
    IN  IF opens = {} \/ closes = {} THEN None
        ELSE IF last > first THEN Some(SubSeq(text, first, last)) ELSE None

ModelCallFailures == {"no_key", "exception", "timeout"}

\* answers of the generative model
ModelAnswers ==
    {[kind |-> k, text |-> <<>>, payload |-> NoPayload] : k \in ModelCallFailures}
    \cup {[kind |-> "nonstr", text |-> <<>>, payload |-> NoPayload]}
    \cup {[kind |-> "text", text |-> t, payload |-> NoPayload] :
            t \in ModelTexts \ {TextObject, TextProseObject}}
    \cup {[kind |-> "text", text |-> t, payload |-> p] :
            t \in {TextObject, TextProseObject}, p \in ModelPayloads}

\* call_dedalus: raises, or returns what was parsed; trace lists the
\* synthesizer states passed after CallingModel
CallDedalus(answer) ==
    IF answer.kind \in ModelCallFailures
    THEN [raised |-> TRUE, isdict |-> FALSE, trace |-> <<"Failed">>]
    ELSE IF answer.kind = "nonstr"
    THEN [raised |-> FALSE, isdict |-> FALSE, trace |-> <<"Validated">>]
    ELSE IF answer.text = TextValue
    THEN [raised |-> FALSE, isdict |-> FALSE, trace |-> <<"Validated">>]
    ELSE IF IsJsonObject(answer.text)
    THEN [raised |-> FALSE, isdict |-> TRUE, trace |-> <<"Validated">>]
    ELSE LET span == RegexSpan(answer.text)
         IN  IF ~IsNone(span) /\ IsJsonObject(span[1])
             THEN [raised |-> FALSE, isdict |-> TRUE,
                   trace |-> <<"Malformed", "ExtractRetry", "Validated">>]
             ELSE [raised |-> TRUE, isdict |-> FALSE,
                   trace |-> <<"Malformed", "ExtractRetry", "Failed">>]

-----------------------------------------------------------------------------
(* itinerary_generator.py: request normalisation and location resolution *)

Destinations == {"paris", "atlantis"}

\* a supplied day count taking precedence over the end date
ResolveTripDates_DayCountWins(req) ==
    LET start == IF IsNone(req.start_date) THEN Today + 30 ELSE req.start_date[1]
        end0 == IF ~IsNone(req.num_days) THEN start + req.num_days[1] - 1
                ELSE IF IsNone(req.end_date) THEN start + 4 ELSE req.end_date[1]
        end == IF end0 < start THEN start ELSE end0
    IN  [start_date |-> start, end_date |-> end,
         trip_days |-> Max(1, end - start + 1)]

\* _resolve_trip_dates
ResolveTripDates(req) ==
    LET start == IF IsNone(req.start_date) THEN Today + 30 ELSE req.start_date[1]
        fallback_days == IF IsNone(req.num_days) THEN 5 ELSE req.num_days[1]
        end0 == IF IsNone(req.end_date) THEN start + fallback_days - 1
                ELSE req.end_date[1]
        end == IF end0 < start THEN start ELSE end0
    IN  [start_date |-> start, end_date |-> end,
         trip_days |-> Max(1, end - start + 1)]

\* coordinates in 1/10000 degree
ParisCoords == <<488566, 23522>>

\* fallback_coords of generate_itinerary: destinations it has an entry for
InFallbackCoords(destination) == destination = "paris"

\* answers of geocode_destination: nothing, or (latitude, longitude)
GeocodeAnswers == {None, ParisCoords, <<0, 325000>>}

\* generate_itinerary lines 58-82
ResolveCoords(destination, answer) ==
    IF IsNone(answer) \/ answer[1] = 0 \/ answer[2] = 0
    THEN IF InFallbackCoords(destination)
         THEN [lat |-> ParisCoords[1], lng |-> ParisCoords[2], source |-> "table"]
         ELSE [lat |-> ParisCoords[1], lng |-> ParisCoords[2], source |-> "default"]
    ELSE [lat |-> answer[1], lng |-> answer[2], source |-> "geocoder"]

\* city_name.lower().strip() of the explored names
CityLower(name) ==
    CASE name = "Paris" -> "paris"
      [] name = "New York" -> "new york"
      [] name = " Paris, France " -> "paris, france"
      [] name = "Paris, TX" -> "paris, tx"
      [] name = "Atlantis, XX" -> "atlantis, xx"
      [] name = "Atlantis" -> "atlantis"
      [] OTHER -> name

\* city_lower.split(",")[0].strip()
CityOnly(city_lower) ==
    CASE city_lower = "paris, france" -> "paris"
      [] city_lower = "paris, tx" -> "paris"
      [] city_lower = "atlantis, xx" -> "atlantis"
      [] OTHER -> city_lower

\* CITY_TO_AIRPORT entries the explored names can hit
CityToAirport(key) ==
    CASE key = "paris" -> Some("CDG")
      [] key = "paris, france" -> Some("CDG")
      [] key = "new york" -> Some("JFK")
      [] OTHER -> None

\* the two table lookups of resolve_airport_code
StaticAirport(name) ==
    IF ~IsNone(CityToAirport(CityLower(name))) THEN CityToAirport(CityLower(name))
    ELSE CityToAirport(CityOnly(CityLower(name)))

\* answers of _lookup_airport_by_keyword
KeywordAnswers == {None, Some("FCO")}

\* answers of _lookup_airport_by_coordinates
RadiusAnswers == {None, Some("ORY")}

\* _lookup_airport_by_keyword / _lookup_airport_by_coordinates: the token is
\* asked for first, the search is made only with a token
Lookup(kind, token_ok, answer) ==
    IF token_ok THEN [code |-> answer, calls |-> <<"token", kind>>]
    ELSE [code |-> None, calls |-> <<"token">>]

\* the radius search tried ahead of the keyword search
ResolveAirport_RadiusFirst(name, coordinates, token_ok, keyword_answer, radius_answer) ==
    LET rd == Lookup("radius", token_ok, radius_answer)
        kw == Lookup("keyword", token_ok, keyword_answer)
    IN  IF ~IsNone(StaticAirport(name))
        THEN [code |-> StaticAirport(name), calls |-> <<>>]
        ELSE IF ~IsNone(coordinates) /\ ~IsNone(rd.code) THEN rd
        ELSE IF ~IsNone(coordinates)
        THEN [code |-> kw.code, calls |-> rd.calls \o kw.calls]
        ELSE kw

\* resolve_airport_code(city_name, latitude, longitude): the code, and the
\* external calls made on the way
ResolveAirport(name, coordinates, token_ok, keyword_answer, radius_answer) ==
    LET kw == Lookup("keyword", token_ok, keyword_answer)
        rd == Lookup("radius", token_ok, radius_answer)
    IN  IF ~IsNone(StaticAirport(name))
        THEN [code |-> StaticAirport(name), calls |-> <<>>]
        ELSE IF ~IsNone(kw.code) THEN kw
        ELSE IF ~IsNone(coordinates)
        THEN [code |-> rd.code, calls |-> kw.calls \o rd.calls]
        ELSE [code |-> None, calls |-> kw.calls]

\* resolve_airport_code(city_name) as generate_itinerary calls it (no coordinates)
ResolveAirportCode(name, keyword_answer) ==
    ResolveAirport(name, None, TRUE, keyword_answer, None).code

-----------------------------------------------------------------------------
(* The worlds a request is explored in.  "pipeline": every provider        *)
(* answer, a few model answers.  "synthesis": few provider answers, every   *)
(* model answer.  "dates": every combination of dates and day count, few    *)
(* answers.  "endpoint": requests the schema rejects as well, few answers.  *)

Worlds == {"pipeline", "synthesis", "dates", "endpoint"}

\* dates a request may carry: around the default start, today + 30
RequestDates == {None} \cup {Some(Today + 30 + k) : k \in 0..MaxDays}

RequestsIn(w) ==
    CASE w = "pipeline" ->
           [destination : Destinations,
            num_days : {None, Some(MaxDays)},
            start_date : {None}, end_date : {None}, budget : {1000}]
      [] w = "synthesis" ->
           [destination : {"paris"},
            num_days : {Some(n) : n \in 1..MaxDays},
            start_date : {None}, end_date : {None, Some(Today + 31)}, budget : {1000}]
      [] w = "dates" ->
           [destination : {"paris"},
            num_days : {None} \cup {Some(n) : n \in 1..MaxDays},
            start_date : RequestDates, end_date : RequestDates, budget : {1000}]
      [] w = "endpoint" ->
           [destination : {"paris"},
            num_days : {None, Some(0 - 1), Some(0), Some(1), Some(MaxDays), Some(46)},
            start_date : {None}, end_date : {None}, budget : {0 - 5, 0, 1000}]

GeocodeAnswersIn(w) == IF w = "pipeline" THEN GeocodeAnswers ELSE {None}

\* a list whose entries from the k-th on are all alike
AlikeFrom(list, k) == \A i, j \in k..Len(list) : list[i] = list[j]

FlightAnswersIn(w) ==
    IF w = "pipeline"
    THEN {a \in FlightAnswers : AlikeFrom(a.offers, IF a.kind = "malformed" THEN 2 ELSE 1)}
    ELSE IF w = "synthesis"
    THEN {a \in FlightAnswers : a.kind = "timeout" \/ a.kind = "ok"}
    ELSE {a \in FlightAnswers : a.kind = "timeout" \/ (a.kind = "ok" /\ Len(a.offers) = 1)}

HotelAnswersIn(w) ==
    IF w = "pipeline" THEN {a \in HotelAnswers : AlikeFrom(a.totals, 1)}
    ELSE {a \in HotelAnswers : a.kind = "timeout"}

WeatherAnswersIn(w) ==
    IF w = "pipeline" THEN {a \in WeatherAnswers : a.covered \in {"none", "start"}}
    ELSE {a \in WeatherAnswers : a.kind = "timeout"}

AttractionAnswersIn(w) ==
    IF w = "pipeline" THEN AttractionAnswers
    ELSE {a \in AttractionAnswers : a.kind = "timeout"}

\* per-candidate answers of the carbon API: all alike, or the first one apart
CarbonPatterns(n, w) ==
    LET answers == IF w = "pipeline" THEN CarbonAnswers ELSE {None}
    IN  {[i \in 1..n |-> IF i = 1 THEN a ELSE b] : a \in answers, b \in answers}

ModelAnswersIn(w) ==
    IF w = "synthesis" THEN ModelAnswers
    ELSE {a \in ModelAnswers :
            \/ a.kind = "exception"
            \/ a.kind = "text" /\ a.text = TextProse
            \/ /\ a.kind = "text" /\ a.text = TextObject
               /\ a.payload.rationale = "text"
               /\ a.payload.totals = TotalsDict(JNum(QInt(123400)), JNum(QInt(500)))
               /\ a.payload.days = DaysList(<<DayAuto>>)}

-----------------------------------------------------------------------------
(* generate_itinerary *)

Providers == <<"flights", "hotels", "weather", "attractions">>
ProviderSet == {Providers[i] : i \in DOMAIN Providers}
IndexOf(p) == CHOOSE i \in DOMAIN Providers : Providers[i] = p

InitPipeline ==
    /\ pc = "received"
    /\ trip = None
    /\ coords = None
    /\ codes = None
    /\ fetch = [p \in ProviderSet |-> "idle"]
    /\ outcome = [c \in ProviderSet \cup {"carbon", "model"} |-> "none"]
    /\ flights = <<>>
    /\ hotels = <<>>
    /\ weather = None
    /\ attractions = None
    /\ prompt = None
    /\ synth = <<"NotStarted">>
    /\ result = None
    /\ error = "none"
    /\ reply = None
    /\ cache = None

Init ==
    /\ env = "pipeline"
    /\ request \in RequestsIn(env)
    /\ InitPipeline
    /\ probe = [fn |-> "none"]

InitSynthesis ==
    /\ env = "synthesis"
    /\ request \in RequestsIn(env)
    /\ InitPipeline
    /\ probe = [fn |-> "none"]

\* the constraint on budget left out
ValidRequest_AnyBudget(req) ==
    IsNone(req.num_days) \/ (req.num_days[1] > 0 /\ req.num_days[1] <= 45)

\* Field constraints of ItineraryGenerationRequest: num_days gt=0 le=45,
\* budget gt=0
ValidRequest(req) ==
    /\ IsNone(req.num_days) \/ (req.num_days[1] > 0 /\ req.num_days[1] <= 45)
    /\ req.budget > 0

\* the body of POST /generate_itinerary is validated against the schema
\* before generate_itinerary_endpoint runs
ValidateRequest ==
    /\ pc = "received"
    /\ IF ValidRequest(request)
       THEN pc' = "start" /\ error' = error
       ELSE pc' = "rejected" /\ error' = "RequestValidationError"
    /\ UNCHANGED <<request, env, trip, coords, codes, fetch, outcome, flights, hotels,
                   weather, attractions, prompt, synth, result, probe, reply, cache>>

\* generate_itinerary_endpoint after generate_itinerary returned:
\* store_itinerary(user_id or 'default', result)
StoreItinerary ==
    /\ pc = "done"
    /\ cache = None
    /\ cache' = Some([user_id |-> "default", num_days |-> result.num_days,
                      path |-> result.path])
    /\ UNCHANGED <<request, env, pc, trip, coords, codes, fetch, outcome, flights,
                   hotels, weather, attractions, prompt, synth, result, error, probe,
                   reply>>

\* lines 46-84: normalise the dates, await geocode_destination
Geocode(answer) ==
    /\ pc = "start"
    /\ trip' = ResolveTripDates(request)
    /\ coords' = ResolveCoords(request.destination, answer)
    /\ pc' = "codes"
    /\ UNCHANGED <<request, env, codes, fetch, outcome, flights, hotels, weather,
                   attractions, prompt, synth, result, error, probe, reply, cache>>

\* lines 86-98: origin and destination airport codes
ResolveCodes(keyword_answer) ==
    /\ pc = "codes"
    /\ LET o == ResolveAirportCode("New York", keyword_answer)
           d == ResolveAirportCode(request.destination, keyword_answer)
       IN  codes' = [origin |-> IF IsNone(o) THEN "JFK" ELSE o[1],
                     destination |-> IF IsNone(d) THEN request.destination ELSE d[1],
                     lookups |-> ResolveAirport(request.destination, None, TRUE,
                                                keyword_answer, None).calls]
    /\ pc' = "aggregate"
    /\ UNCHANGED <<request, env, trip, coords, fetch, outcome, flights, hotels, weather,
                   attractions, prompt, synth, result, error, probe, reply, cache>>

\* lines 100-141: each fetch is awaited before the next one is called
MayIssue(p) == \A i \in 1..(IndexOf(p) - 1) : fetch[Providers[i]] = "done"

StartFetch(p) ==
    /\ pc = "aggregate"
    /\ fetch[p] = "idle"
    /\ MayIssue(p)
    /\ fetch' = [fetch EXCEPT ![p] = "inflight"]
    /\ UNCHANGED <<request, env, pc, trip, coords, codes, outcome, flights, hotels,
                   weather, attractions, prompt, synth, result, error, probe, reply, cache>>

\* moving on as soon as the fetch that just returned is the lodging one
AfterFetch_Early(p) ==
    IF p = "hotels" THEN "emissions" ELSE "aggregate"

\* the stage after fetch p returned: emissions once all four are back
AfterFetch(p) ==
    IF \A q \in ProviderSet \ {p} : fetch[q] = "done" THEN "emissions" ELSE "aggregate"

\* how a fetch ended, as seen from outside: the provider answered well or not
AnswerClass(answer) == IF answer.kind = "ok" THEN "ok" ELSE "failed"

\* a failed fetch made available for another attempt
FetchStateAfter_Retry(answer) == IF AnswerClass(answer) = "failed" THEN "idle" ELSE "done"

\* each await of lines 102-141 returns once, with provider or fallback data
FetchStateAfter(answer) == "done"

\* _fallback_flights lines 271-272: the codes are resolved again
ResolveAgain(code, keyword_answer) ==
    LET r == ResolveAirportCode(code, keyword_answer)
    IN  Upper(IF IsNone(r) THEN code ELSE r[1])

\* fetch_flights_amadeus returns
CompleteFlights(answer, keyword_answer) ==
    /\ pc = "aggregate"
    /\ fetch["flights"] = "inflight"
    /\ flights' = FetchFlights(answer, ResolveAgain(codes.origin, keyword_answer),
                               ResolveAgain(codes.destination, keyword_answer))
    /\ fetch' = [fetch EXCEPT !["flights"] = FetchStateAfter(answer)]
    /\ outcome' = [outcome EXCEPT !["flights"] = AnswerClass(answer)]
    /\ pc' = AfterFetch("flights")
    /\ UNCHANGED <<request, env, trip, coords, codes, hotels, weather, attractions,
                   prompt, synth, result, error, probe, reply, cache>>

CompleteHotels(answer) ==
    /\ pc = "aggregate"
    /\ fetch["hotels"] = "inflight"
    /\ hotels' = FetchHotels(answer, trip.start_date, trip.end_date)
    /\ fetch' = [fetch EXCEPT !["hotels"] = FetchStateAfter(answer)]
    /\ outcome' = [outcome EXCEPT !["hotels"] = AnswerClass(answer)]
    /\ pc' = AfterFetch("hotels")
    /\ UNCHANGED <<request, env, trip, coords, codes, flights, weather, attractions,
                   prompt, synth, result, error, probe, reply, cache>>

CompleteWeather(answer) ==
    /\ pc = "aggregate"
    /\ fetch["weather"] = "inflight"
    /\ weather' = FetchWeather(answer, trip.start_date, trip.end_date)
    /\ fetch' = [fetch EXCEPT !["weather"] = FetchStateAfter(answer)]
    /\ outcome' = [outcome EXCEPT !["weather"] = AnswerClass(answer)]
    /\ pc' = AfterFetch("weather")
    /\ UNCHANGED <<request, env, trip, coords, codes, flights, hotels, attractions,
                   prompt, synth, result, error, probe, reply, cache>>

CompleteAttractions(answer) ==
    /\ pc = "aggregate"
    /\ fetch["attractions"] = "inflight"
    /\ attractions' = FetchAttractions(answer)
    /\ fetch' = [fetch EXCEPT !["attractions"] = FetchStateAfter(answer)]
    /\ outcome' = [outcome EXCEPT !["attractions"] = AnswerClass(answer)]
    /\ pc' = AfterFetch("attractions")
    /\ UNCHANGED <<request, env, trip, coords, codes, flights, hotels, weather,
                   prompt, synth, result, error, probe, reply, cache>>

\* lines 144-157: flights that carry no emissions get the carbon API's
\* estimate, or the flat fallback
EstimateFlights(answers) ==
    /\ pc = "emissions"
    /\ flights' = [i \in DOMAIN flights |->
                     IF Falsy(flights[i].emissions_kg)
                     THEN [flights[i] EXCEPT !.emissions_kg =
                             IF Falsy(answers[i]) THEN EstimateFlightEmissionsFallback(1)
                             ELSE answers[i]]
                     ELSE flights[i]]
    /\ pc' = "emissions_hotels"
    /\ UNCHANGED <<request, env, trip, coords, codes, fetch, outcome, hotels, weather,
                   attractions, prompt, synth, result, error, probe, reply, cache>>

\* the else branch of lines 166-169 left out
EstimateHotels_NoFallback(answers) ==
    /\ pc = "emissions_hotels"
    /\ hotels' = [i \in DOMAIN hotels |->
                    IF Falsy(hotels[i].emissions_kg) /\ ~Falsy(answers[i])
                    THEN [hotels[i] EXCEPT !.emissions_kg = QDivInt(answers[i], trip.trip_days)]
                    ELSE hotels[i]]
    /\ outcome' = [outcome EXCEPT !["carbon"] =
                     IF \A i \in DOMAIN answers : IsNone(answers[i]) THEN "failed" ELSE "ok"]
    /\ pc' = "synthesis"
    /\ UNCHANGED <<request, env, trip, coords, codes, fetch, flights, weather,
                   attractions, prompt, synth, result, error, probe, reply, cache>>

\* lines 159-169: per-night emissions of every hotel
EstimateHotels(answers) ==
    /\ pc = "emissions_hotels"
    /\ hotels' = [i \in DOMAIN hotels |->
                    IF Falsy(hotels[i].emissions_kg)
                    THEN [hotels[i] EXCEPT !.emissions_kg =
                            IF Falsy(answers[i])
                            THEN QDivInt(EstimateHotelEmissionsFallback(trip.trip_days),
                                         trip.trip_days)
                            ELSE QDivInt(answers[i], trip.trip_days)]
                    ELSE hotels[i]]
    /\ outcome' = [outcome EXCEPT !["carbon"] =
                     IF \A i \in DOMAIN answers : IsNone(answers[i]) THEN "failed" ELSE "ok"]
    /\ pc' = "synthesis"
    /\ UNCHANGED <<request, env, trip, coords, codes, fetch, flights, weather,
                   attractions, prompt, synth, result, error, probe, reply, cache>>

\* build_dedalus_prompt: what the call at lines 173-186 ends in.  The function
\* is declared with nine parameters (prompt_builder.py 9-19) and both of its
\* callers pass three more keywords (likes, dislikes, dietary_restrictions):
\* against the declared signature the call raises TypeError.  accepts = TRUE
\* is the builder its callers are written for; its body indexes segments[0]
\* of each of the first five flights.
BuildDedalusPrompt(accepts, top_flights) ==
    IF ~accepts THEN "TypeError"
    ELSE IF \E i \in DOMAIN top_flights : top_flights[i].segments = <<>> THEN "IndexError"
    ELSE "ok"

\* lines 171-191: build the prompt and start the model call
BuildPrompt(accepts) ==
    /\ pc = "synthesis"
    /\ prompt' = [num_days |-> trip.trip_days, flights |-> flights, hotels |-> hotels]
    /\ LET built == BuildDedalusPrompt(accepts, FirstN(flights, 5))
       IN  IF built = "ok"
           THEN /\ pc' = "calling"
                /\ synth' = synth \o <<"CallingModel">>
                /\ error' = error
           ELSE /\ pc' = "raised"
                /\ synth' = synth
                /\ error' = built
    /\ UNCHANGED <<request, env, trip, coords, codes, fetch, outcome, flights, hotels,
                   weather, attractions, result, probe, reply, cache>>

\* the division by ten left out
EcoScore_NoScale(total_emissions) ==
    QMax(QInt(0), QSub(QInt(100), total_emissions))

\* eco score of lines 219 and 284: max(0, 100 - total / 10)
EcoScore(total_emissions) ==
    QMax(QInt(0), QSub(QInt(100), QDivInt(total_emissions, 10)))

\* _compute_flight_eco_score
ComputeFlightEcoScore(emissions_kg) ==
    IF IsNone(emissions_kg) THEN None
    ELSE QMax(QInt(0), QMin(QInt(100), QSub(QInt(100), emissions_kg)))

\* every field of a summary read from the first segment
SummarizeFlights_FirstSegment(options) ==
    LET keep == SelectSeq(options, LAMBDA o : o.segments # <<>>)
    IN  [i \in DOMAIN keep |->
            [carrier |-> keep[i].segments[1].carrier,
             origin |-> keep[i].segments[1].origin,
             destination |-> keep[i].segments[1].destination,
             departure |-> keep[i].segments[1].departure,
             arrival |-> keep[i].segments[1].arrival,
             price |-> keep[i].price,
             eco_score |-> ComputeFlightEcoScore(keep[i].emissions_kg),
             emissions_kg |-> keep[i].emissions_kg]]

\* _summarize_flights: options without segments are skipped
SummarizeFlights(options) ==
    LET keep == SelectSeq(options, LAMBDA o : o.segments # <<>>)
    IN  [i \in DOMAIN keep |->
            [carrier |-> keep[i].segments[1].carrier,
             origin |-> keep[i].segments[1].origin,
             destination |-> keep[i].segments[Len(keep[i].segments)].destination,
             departure |-> keep[i].segments[1].departure,
             arrival |-> keep[i].segments[Len(keep[i].segments)].arrival,
             price |-> keep[i].price,
             eco_score |-> ComputeFlightEcoScore(keep[i].emissions_kg),
             emissions_kg |-> keep[i].emissions_kg]]

\* _fallback_itinerary(normalized_request, ...): num_days is trip_days
FallbackItinerary(num_days, fl, ho, tr, dayparts) ==
    LET nights == num_days
        total_cost == (IF fl # <<>> THEN fl[1].price ELSE 0)
                      + (IF ho # <<>> THEN ho[1].nightly_rate * nights ELSE 0)
        total_emissions ==
            QAdd(IF fl # <<>> /\ ~Falsy(fl[1].emissions_kg)
                 THEN fl[1].emissions_kg ELSE QInt(200),
                 IF ho # <<>> /\ ~Falsy(ho[1].emissions_kg)
                 THEN QMulInt(ho[1].emissions_kg, nights) ELSE QInt(15 * nights))
    IN  [path |-> "fallback",
         num_days |-> num_days,
         days |-> [i \in 1..num_days |-> i],
         totals |-> TotalsDict(JNum(QInt(total_cost)), JNum(total_emissions)),
         eco_score |-> EcoScore(total_emissions),
         flights |-> SummarizeFlights(fl),
         day_weather |-> IF dayparts # <<>> THEN dayparts
                         ELSE FallbackWeather(tr.start_date, tr.end_date)]

\* the first exception lines 200-242 raise on a parsed response, or "none"
AssembleError(payload) ==
    IF payload.days.kind = "string" THEN "AttributeError"
    ELSE IF \E i \in DOMAIN payload.days.entries : payload.days.entries[i].kind = "invalid"
    THEN "ValidationError"
    ELSE IF payload.totals.kind = "nondict" THEN "AttributeError"
    ELSE IF payload.totals.emissions_kg.t = "bad" THEN "TypeError"
    ELSE IF payload.totals.cost.t = "bad" THEN "TypeError"
    ELSE IF payload.rationale = "null" THEN "ValidationError"
    ELSE "none"

\* lines 200-242 on a response they accept
AssembleItinerary(payload, fl, tr, dayparts) ==
    LET entries == payload.days.entries
        totals == IF payload.totals.kind = "absent"
                  THEN TotalsDict(JNum(QInt(0)), JNum(QInt(0)))
                  ELSE payload.totals
        total_emissions == IF totals.emissions_kg.t = "num"
                           THEN totals.emissions_kg.v ELSE QInt(0)
    IN  [path |-> "model",
         num_days |-> tr.trip_days,
         days |-> [i \in DOMAIN entries |->
                     IF entries[i].kind = "num" THEN entries[i].day ELSE i],
         totals |-> totals,
         eco_score |-> EcoScore(total_emissions),
         flights |-> SummarizeFlights(fl),
         day_weather |-> dayparts]

\* the try block also asking for a non-empty list of days
PassesTry_NonEmptyDays(called, payload) ==
    /\ ~called.raised
    /\ called.isdict
    /\ payload.days.kind = "list"
    /\ payload.days.entries # <<>>

\* the response is used when the statements inside the try of lines 190-198
\* pass: it is a dict and len() applies to its "days"
PassesTry(called, payload) ==
    /\ ~called.raised
    /\ called.isdict
    /\ payload.days.kind # "nonlist"

\* lines 188-242: the model call returns or raises
ModelReturns(answer) ==
    /\ pc = "calling"
    /\ LET called == CallDedalus(answer)
       IN  /\ outcome' = [outcome EXCEPT !["model"] =
                            IF answer.kind \in ModelCallFailures THEN "failed" ELSE "ok"]
           /\ IF ~PassesTry(called, answer.payload)
              THEN /\ result' = FallbackItinerary(trip.trip_days, flights, hotels, trip,
                                                  weather.dayparts)
                   /\ synth' = synth \o called.trace \o <<"Fallback", "Done">>
                   /\ pc' = "done"
                   /\ error' = error
              ELSE IF AssembleError(answer.payload) # "none"
              THEN /\ result' = result
                   /\ synth' = synth \o called.trace
                   /\ pc' = "raised"
                   /\ error' = AssembleError(answer.payload)
              ELSE /\ result' = AssembleItinerary(answer.payload, flights, trip,
                                                  weather.dayparts)
                   /\ synth' = synth \o called.trace \o <<"Done">>
                   /\ pc' = "done"
                   /\ error' = error
    /\ reply' = [kind |-> answer.kind, text |-> answer.text,
                  days |-> answer.payload.days.kind]
    /\ UNCHANGED <<request, env, trip, coords, codes, fetch, flights, hotels, weather,
                   attractions, prompt, probe, cache>>

Next ==
    \/ ValidateRequest
    \/ \E a \in GeocodeAnswersIn(env) : Geocode(a)
    \/ \E k \in KeywordAnswers : ResolveCodes(k)
    \/ \E p \in ProviderSet : StartFetch(p)
    \/ \E a \in FlightAnswersIn(env), k \in KeywordAnswers : CompleteFlights(a, k)
    \/ \E a \in HotelAnswersIn(env) : CompleteHotels(a)
    \/ \E a \in WeatherAnswersIn(env) : CompleteWeather(a)
    \/ \E a \in AttractionAnswersIn(env) : CompleteAttractions(a)
    \/ \E a \in CarbonPatterns(Len(flights), env) : EstimateFlights(a)
    \/ \E a \in CarbonPatterns(Len(hotels), env) : EstimateHotels(a)
    \/ \E b \in BOOLEAN : BuildPrompt(b)
    \/ \E a \in ModelAnswersIn(env) : ModelReturns(a)
    \/ StoreItinerary

Spec == Init /\ [][Next]_vars

SpecSynthesis == InitSynthesis /\ [][Next]_vars

InitDates ==
    /\ env = "dates"
    /\ request \in RequestsIn(env)
    /\ InitPipeline
    /\ probe = [fn |-> "none"]

SpecDates == InitDates /\ [][Next]_vars

InitEndpoint ==
    /\ env = "endpoint"
    /\ request \in RequestsIn(env)
    /\ InitPipeline
    /\ probe = [fn |-> "none"]

SpecEndpoint == InitEndpoint /\ [][Next]_vars

-----------------------------------------------------------------------------
(* _estimate_emissions as a function of distance and cabin *)

RankOf(cabin) == CHOOSE i \in DOMAIN CabinRanks : CabinRanks[i] = cabin

\* whole-km distances: a grid, and the neighbourhood of the two band edges
ProbeDistances ==
    {250 * k : k \in 0..MaxSteps}
    \cup {1500 + j : j \in (0 - MaxDelta)..MaxDelta}
    \cup {3500 + j : j \in (0 - MaxDelta)..MaxDelta}

InitEmissions ==
    /\ env = "pipeline"
    /\ request = [destination |-> "paris", num_days |-> Some(1),
                  start_date |-> None, end_date |-> None, budget |-> 1000]
    /\ InitPipeline
    /\ probe \in {pr \in [fn : {"estimate_emissions"},
                          d1 : ProbeDistances, d2 : ProbeDistances,
                          c1 : 1..4, c2 : 1..4,
                          e1 : {None}, e2 : {None}, applied : {FALSE}] :
                    pr.d1 <= pr.d2 /\ pr.c1 <= pr.c2}

\* _estimate_emissions on both inputs of the probe
ApplyEstimate ==
    /\ probe.fn = "estimate_emissions"
    /\ ~probe.applied
    /\ probe' = [probe EXCEPT
                    !.e1 = EstimateEmissions(QInt(probe.d1), CabinRanks[probe.c1]),
                    !.e2 = EstimateEmissions(QInt(probe.d2), CabinRanks[probe.c2]),
                    !.applied = TRUE]
    /\ UNCHANGED pipeVars

NextEmissions == ApplyEstimate

SpecEmissions == InitEmissions /\ [][NextEmissions]_vars

-----------------------------------------------------------------------------
(* fetch_flights_amadeus as a function of what the provider answers *)

InitFlightSearch ==
    /\ env = "pipeline"
    /\ request = [destination |-> "paris", num_days |-> Some(1),
                  start_date |-> None, end_date |-> None, budget |-> 1000]
    /\ InitPipeline
    /\ probe \in [fn : {"fetch_flights"},
                   answer : FlightAnswers,
                   origin : {"JFK", "CDG"},
                   destination : {"CDG", "FCO", "atlantis"},
                   keyword : KeywordAnswers,
                   out : {<<>>}, applied : {FALSE}]

ApplyFetchFlights ==
    /\ probe.fn = "fetch_flights"
    /\ ~probe.applied
    /\ probe' = [probe EXCEPT
                    !.out = FetchFlights(probe.answer,
                                         ResolveAgain(probe.origin, probe.keyword),
                                         ResolveAgain(probe.destination, probe.keyword)),
                    !.applied = TRUE]
    /\ UNCHANGED pipeVars

NextFlightSearch == ApplyFetchFlights

SpecFlightSearch == InitFlightSearch /\ [][NextFlightSearch]_vars

-----------------------------------------------------------------------------
(* Provider authentication tokens across requests.  A token is named by the  *)
(* time it expires at.                                                       *)

\* "refresh a little early": seconds before expiry at which the cached token
\* is no longer reused
RefreshMargin == 30

\* expires_in (seconds) the token endpoint may answer with; None: the POST fails
TokenAnswers == {None, Some(20), Some(60)}

\* seconds that may pass between two calls
ClockSteps == {10, 20}

NoHandout == [caller |-> "none", fetched |-> FALSE, had |-> None, handed |-> None, at |-> 0]

InitTokens ==
    /\ env = "pipeline"
    /\ request = [destination |-> "paris", num_days |-> Some(1),
                  start_date |-> None, end_date |-> None, budget |-> 1000]
    /\ InitPipeline
    /\ probe = [fn |-> "tokens", now |-> 0, token_cache |-> None, last |-> NoHandout]

\* time passes
Tick(d) ==
    /\ probe.fn = "tokens"
    /\ probe.now + d <= MaxClock
    /\ probe' = [probe EXCEPT !.now = probe.now + d]
    /\ UNCHANGED pipeVars

\* _get_amadeus_token_sync, called by the airport lookups
AirportLookupToken(answer) ==
    /\ probe.fn = "tokens"
    /\ LET cached == probe.token_cache
       IN  IF ~IsNone(cached) /\ probe.now < cached[1] - RefreshMargin
           THEN probe' = [probe EXCEPT
                            !.last = [caller |-> "airport", fetched |-> FALSE,
                                      had |-> cached, handed |-> cached,
                                      at |-> probe.now]]
           ELSE probe' = [probe EXCEPT
                            !.token_cache = IF IsNone(answer) THEN cached
                                            ELSE Some(probe.now + answer[1]),
                            !.last = [caller |-> "airport", fetched |-> TRUE,
                                      had |-> cached,
                                      handed |-> IF IsNone(answer) THEN None
                                                 ELSE Some(probe.now + answer[1]),
                                      at |-> probe.now]]
    /\ UNCHANGED pipeVars

\* get_amadeus_token of amadeus_flights.py / amadeus_hotels.py: a POST to the
\* token endpoint on every call, nothing read from or written to _token_cache
SearchToken(caller, answer) ==
    /\ probe.fn = "tokens"
    /\ probe' = [probe EXCEPT
                    !.last = [caller |-> caller, fetched |-> TRUE,
                              had |-> probe.token_cache,
                              handed |-> IF IsNone(answer) THEN None
                                         ELSE Some(probe.now + answer[1]),
                              at |-> probe.now]]
    /\ UNCHANGED pipeVars

FlightSearchToken(answer) == SearchToken("flights", answer)

LodgingSearchToken(answer) == SearchToken("hotels", answer)

NextTokens ==
    \/ \E d \in ClockSteps : Tick(d)
    \/ \E a \in TokenAnswers : AirportLookupToken(a)
    \/ \E a \in TokenAnswers : FlightSearchToken(a)
    \/ \E a \in TokenAnswers : LodgingSearchToken(a)

SpecTokens == InitTokens /\ [][NextTokens]_vars

-----------------------------------------------------------------------------
(* resolve_airport_code as a function of its arguments and of what the       *)
(* provider answers                                                          *)

ProbeNames == {"Paris", "paris", " Paris, France ", "Paris, TX", "New York",
               "Atlantis", "Atlantis, XX"}

InitAirport ==
    /\ env = "pipeline"
    /\ request = [destination |-> "paris", num_days |-> Some(1),
                  start_date |-> None, end_date |-> None, budget |-> 1000]
    /\ InitPipeline
    /\ probe \in [fn : {"resolve_airport_code"},
                   name : ProbeNames,
                   coordinates : {None, ParisCoords, <<0, 0>>},
                   token_ok : BOOLEAN,
                   keyword : KeywordAnswers,
                   radius : RadiusAnswers,
                   out : {[code |-> None, calls |-> <<>>]}, applied : {FALSE}]

ApplyResolveAirport ==
    /\ probe.fn = "resolve_airport_code"
    /\ ~probe.applied
    /\ probe' = [probe EXCEPT
                    !.out = ResolveAirport(probe.name, probe.coordinates, probe.token_ok,
                                           probe.keyword, probe.radius),
                    !.applied = TRUE]
    /\ UNCHANGED pipeVars

NextAirport == ApplyResolveAirport

SpecAirport == InitAirport /\ [][NextAirport]_vars

-----------------------------------------------------------------------------
(* _total_distance_km as a function of the segments                          *)

\* segment durations explored, in minutes
ProbeMinutes == {0, 30, 120}

ProbeSegments ==
    {sg \in [origin : {"JFK", "CDG", "XXX"}, destination : {"JFK", "CDG", "XXX"},
             minutes : ProbeMinutes] : sg.origin # sg.destination}

InitDistance ==
    /\ env = "pipeline"
    /\ request = [destination |-> "paris", num_days |-> Some(1),
                  start_date |-> None, end_date |-> None, budget |-> 1000]
    /\ InitPipeline
    /\ probe \in [fn : {"total_distance_km"},
                   segments : {<<a>> : a \in ProbeSegments}
                              \cup {<<a, b>> : a \in ProbeSegments, b \in ProbeSegments},
                   out : {None}, applied : {FALSE}]

ApplyTotalDistance ==
    /\ probe.fn = "total_distance_km"
    /\ ~probe.applied
    /\ probe' = [probe EXCEPT !.out = Some(TotalDistanceKm(probe.segments)),
                              !.applied = TRUE]
    /\ UNCHANGED pipeVars

NextDistance == ApplyTotalDistance

SpecDistance == InitDistance /\ [][NextDistance]_vars

-----------------------------------------------------------------------------
(* _summarize_flights as a function of the candidate list                    *)

\* emissions of a candidate, in kg
ProbeEmissions == {QInt(0), QInt(40), QInt(100), QInt(250)}

ProbeOptions ==
    {[price |-> o.price, cabin |-> o.cabin, segments |-> o.segments,
      emissions_kg |-> e, source |-> "provider"] :
        o \in ProviderOffers \cup {OfferWithoutItineraries}, e \in ProbeEmissions}

InitSummaries ==
    /\ env = "pipeline"
    /\ request = [destination |-> "paris", num_days |-> Some(1),
                  start_date |-> None, end_date |-> None, budget |-> 1000]
    /\ InitPipeline
    /\ probe \in [fn : {"summarize_flights"},
                   options : {<<a>> : a \in ProbeOptions}
                             \cup {<<a, b>> : a \in ProbeOptions, b \in ProbeOptions},
                   out : {<<>>}, applied : {FALSE}]

ApplySummarizeFlights ==
    /\ probe.fn = "summarize_flights"
    /\ ~probe.applied
    /\ probe' = [probe EXCEPT !.out = SummarizeFlights(probe.options),
                              !.applied = TRUE]
    /\ UNCHANGED pipeVars

NextSummaries == ApplySummarizeFlights

SpecSummaries == InitSummaries /\ [][NextSummaries]_vars

-----------------------------------------------------------------------------
(* photon_integration/itinerary_cache.py and its two users in the API:       *)
(* /generate_itinerary stores, /photon/message reads                         *)

\* latest hour the clock is advanced to
MaxHours == 26

CACHE_EXPIRY_HOURS == 24

\* callers of the API
Users == {"u1", "u2"}

\* keys of _itinerary_cache
CacheKeys == Users \cup {"default"}

\* hours that pass between two calls
HourSteps == {12, 13}

NoRead == [op |-> "none", user_id |-> None, out |-> None, at |-> 0]

InitCache ==
    /\ env = "pipeline"
    /\ request = [destination |-> "paris", num_days |-> Some(1),
                  start_date |-> None, end_date |-> None, budget |-> 1000]
    /\ InitPipeline
    /\ probe = [fn |-> "cache", now |-> 0,
                itinerary_cache |-> [k \in CacheKeys |-> None],
                last |-> NoRead]

\* datetime.now() moves on
AdvanceHours(d) ==
    /\ probe.fn = "cache"
    /\ probe.now + d <= MaxHours
    /\ probe' = [probe EXCEPT !.now = probe.now + d]
    /\ UNCHANGED pipeVars

\* the entry with the greatest timestamp; among equal timestamps max() keeps
\* the first in insertion order, here any of them
MostRecent(c) ==
    {k \in CacheKeys :
        /\ ~IsNone(c[k])
        /\ \A j \in CacheKeys : ~IsNone(c[j]) => c[j][1].timestamp <= c[k][1].timestamp}

\* store_itinerary(user_id, itinerary)
StoreItineraryFor(user_id, itinerary) ==
    /\ probe.fn = "cache"
    /\ probe' = [probe EXCEPT
                    !.itinerary_cache[user_id] =
                        Some([itinerary |-> itinerary, timestamp |-> probe.now])]
    /\ UNCHANGED pipeVars

\* a direct store_itinerary call under the caller's own id
StoreOwn(user_id) == StoreItineraryFor(user_id, [by |-> user_id, at |-> probe.now])

\* generate_itinerary_endpoint: the request schema has no user_id, so the
\* key is always 'default'
GenerateItineraryEndpoint(caller) ==
    StoreItineraryFor("default", [by |-> caller, at |-> probe.now])

\* get_itinerary(user_id) with a user id
GetItinerary(user_id) ==
    /\ probe.fn = "cache"
    /\ LET entry == probe.itinerary_cache[user_id]
       IN  IF IsNone(entry)
           THEN probe' = [probe EXCEPT !.last = [op |-> "get_itinerary",
                                                 user_id |-> Some(user_id),
                                                 out |-> None, at |-> probe.now]]
           ELSE IF probe.now - entry[1].timestamp > CACHE_EXPIRY_HOURS
           THEN probe' = [probe EXCEPT !.itinerary_cache[user_id] = None,
                                       !.last = [op |-> "get_itinerary",
                                                 user_id |-> Some(user_id),
                                                 out |-> None, at |-> probe.now]]
           ELSE probe' = [probe EXCEPT !.last = [op |-> "get_itinerary",
                                                 user_id |-> Some(user_id),
                                                 out |-> Some(entry[1].itinerary),
                                                 at |-> probe.now]]
    /\ UNCHANGED pipeVars

\* what get_itinerary(None) and get_latest_itinerary() return
LatestOf(c) ==
    IF MostRecent(c) = {} THEN {None}
    ELSE {Some(c[k][1].itinerary) : k \in MostRecent(c)}

\* get_itinerary(None)
GetItineraryNoUser ==
    /\ probe.fn = "cache"
    /\ \E out \in LatestOf(probe.itinerary_cache) :
          probe' = [probe EXCEPT !.last = [op |-> "get_itinerary", user_id |-> None,
                                           out |-> out, at |-> probe.now]]
    /\ UNCHANGED pipeVars

\* get_latest_itinerary()
GetLatestItinerary ==
    /\ probe.fn = "cache"
    /\ \E out \in LatestOf(probe.itinerary_cache) :
          probe' = [probe EXCEPT !.last = [op |-> "get_latest_itinerary", user_id |-> None,
                                           out |-> out, at |-> probe.now]]
    /\ UNCHANGED pipeVars

\* clear_cache(user_id): one key, or all of them when user_id is None
ClearCache(user_id) ==
    /\ probe.fn = "cache"
    /\ probe' = [probe EXCEPT
                    !.itinerary_cache =
                        [k \in CacheKeys |->
                            IF IsNone(user_id) \/ user_id = Some(k) THEN None
                            ELSE probe.itinerary_cache[k]]]
    /\ UNCHANGED pipeVars

\* handle_photon_message: a message that brings no itinerary in its context
\* gets the latest one of the cache
HandlePhotonMessage(user_id, has_itinerary) ==
    /\ probe.fn = "cache"
    /\ \E out \in IF has_itinerary THEN {None} ELSE LatestOf(probe.itinerary_cache) :
          probe' = [probe EXCEPT !.last = [op |-> "photon_message",
                                           user_id |-> Some(user_id),
                                           out |-> out, at |-> probe.now]]
    /\ UNCHANGED pipeVars

NextCache ==
    \/ \E d \in HourSteps : AdvanceHours(d)
    \/ \E u \in Users : StoreOwn(u)
    \/ \E u \in Users : GenerateItineraryEndpoint(u)
    \/ \E u \in CacheKeys : GetItinerary(u)
    \/ GetItineraryNoUser
    \/ GetLatestItinerary
    \/ \E u \in {None} \cup {Some(k) : k \in CacheKeys} : ClearCache(u)
    \/ \E u \in Users, c \in BOOLEAN : HandlePhotonMessage(u, c)

SpecCache == InitCache /\ [][NextCache]_vars

\* the two endpoints alone, called by either user in any order
NextPhoton ==
    \/ \E d \in HourSteps : AdvanceHours(d)
    \/ \E u \in Users : GenerateItineraryEndpoint(u)
    \/ \E u \in Users, c \in BOOLEAN : HandlePhotonMessage(u, c)

SpecPhoton == InitCache /\ [][NextPhoton]_vars

-----------------------------------------------------------------------------
(* Properties *)

Terminal == pc \in {"done", "raised"}
Returned == pc = "done" /\ result # None

\* C1: whatever the generative-model call ends in (exception, timeout,
\* unparseable text, parsed output of the wrong shape), the synthesis stage
\* ends in Done with a plan and no exception leaves generate_itinerary.
C1_SynthesisAlwaysDone ==
    outcome["model"] # "none" =>
        /\ pc = "done"
        /\ result # None
        /\ synth[Len(synth)] = "Done"
        /\ error = "none"

\* C2: every returned itinerary has exactly trip_days day entries, numbered
\* 1..trip_days in order, on the model path and on the fallback path.
C2_DaysContiguous ==
    Returned => result.days = [i \in 1..trip.trip_days |-> i]

AllProvidersFailed == \A p \in ProviderSet : outcome[p] = "failed"

\* C3: when the four providers fail, the carbon estimates fail and the model
\* is unreachable, a request with num_days = N still ends in an itinerary
\* with N day entries, totals that are numbers and an eco score in [0,100].
C3_AllFailStillReturns ==
    (/\ Terminal
     /\ AllProvidersFailed
     /\ outcome["carbon"] = "failed"
     /\ outcome["model"] # "ok"
     /\ ~IsNone(request.num_days))
    => /\ Returned
       /\ Len(result.days) = request.num_days[1]
       /\ result.totals.cost.t = "num"
       /\ result.totals.emissions_kg.t = "num"
       /\ QLe(QInt(0), result.eco_score)
       /\ QLe(result.eco_score, QInt(100))

AllFallback(list) == list # <<>> /\ \A i \in DOMAIN list : list[i].source = "fallback"

\* C4: a provider failure of any kind leaves that provider's non-empty
\* synthetic fallback data in its slot, and no exception caused by provider
\* data leaves generate_itinerary.
C4_FailureGivesFallback ==
    /\ (fetch["flights"] = "done" /\ outcome["flights"] = "failed") => AllFallback(flights)
    /\ (fetch["hotels"] = "done" /\ outcome["hotels"] = "failed") => AllFallback(hotels)
    /\ (fetch["weather"] = "done" /\ outcome["weather"] = "failed")
          => AllFallback(weather.daily) /\ AllFallback(weather.dayparts)
    /\ (fetch["attractions"] = "done" /\ outcome["attractions"] = "failed")
          => attractions.source = "fallback" /\ attractions.count > 0
    /\ (\E p \in ProviderSet : outcome[p] = "failed") => error # "IndexError"

\* C5: during aggregation every fetch that has not been issued yet can be
\* issued at once, whatever the state of the other three.
C5_IssuedConcurrently ==
    \A p \in ProviderSet :
        (pc = "aggregate" /\ fetch[p] = "idle") => ENABLED StartFetch(p)

\* C6: coordinates and airport codes are resolved before any fetch is
\* issued, emissions estimation begins only when all four fetches are back,
\* and the prompt is built and the model called only after the estimation
\* of every candidate.
C6_StageOrder ==
    /\ (\E p \in ProviderSet : fetch[p] # "idle") => coords # None /\ codes # None
    /\ pc \in {"emissions", "emissions_hotels", "synthesis", "calling", "done", "raised"}
          => \A p \in ProviderSet : fetch[p] = "done"
    /\ outcome["carbon"] # "none" => \A p \in ProviderSet : fetch[p] = "done"
    /\ prompt # None => outcome["carbon"] # "none"
    /\ outcome["model"] # "none" => prompt # None
    /\ pc = "calling" => prompt # None

C6_Witness == pc = "calling" /\ prompt # None /\ outcome["carbon"] = "ok"

\* C7: every flight and every hotel handed to build_dedalus_prompt carries
\* an emissions figure.
C7_PromptCandidatesHaveEmissions ==
    prompt # None =>
        /\ \A i \in DOMAIN prompt.flights : ~IsNone(prompt.flights[i].emissions_kg)
        /\ \A i \in DOMAIN prompt.hotels : ~IsNone(prompt.hotels[i].emissions_kg)

C7_Witness ==
    /\ prompt # None
    /\ outcome["carbon"] = "failed"
    /\ outcome["hotels"] = "failed"
    /\ outcome["flights"] = "ok"
    /\ Len(prompt.hotels) = 5

BandOf(km) == IF km <= 1500 THEN 1 ELSE IF km <= 3500 THEN 2 ELSE 3

\* C8 as claimed: the estimate never decreases when the distance grows
\* (cabin fixed), across the band edges included, nor when the cabin rank
\* grows (distance fixed).
C8_MonotoneEverywhere ==
    (probe.fn = "estimate_emissions" /\ probe.applied) =>
        /\ probe.c1 = probe.c2 => QLe(probe.e1, probe.e2)
        /\ probe.d1 = probe.d2 => QLe(probe.e1, probe.e2)

\* C8 amended: the estimate never decreases when the distance grows inside
\* one distance band (cabin fixed), nor when the cabin rank grows (distance
\* fixed).
C8_MonotoneWithinBand ==
    (probe.fn = "estimate_emissions" /\ probe.applied) =>
        /\ (probe.c1 = probe.c2 /\ BandOf(probe.d1) = BandOf(probe.d2))
              => QLe(probe.e1, probe.e2)
        /\ probe.d1 = probe.d2 => QLe(probe.e1, probe.e2)

C8_Witness ==
    /\ probe.fn = "estimate_emissions" /\ probe.applied
    /\ probe.d1 = 3500 /\ probe.d2 = 3500
    /\ probe.c1 = 2 /\ probe.c2 = 3
    /\ QLt(probe.e1, probe.e2)

\* total emissions the score of a returned itinerary is taken from: the
\* emissions_kg of its totals, 0 when the totals carry none
ReportedEmissions ==
    IF result.totals.emissions_kg.t = "num" THEN result.totals.emissions_kg.v ELSE <<0, 1>>

\* C9: the eco score of a returned itinerary is max(0, 100 - E / 10) for its
\* total emissions E: 0, 500, 1000 and 2000 kg give 100, 50, 0 and 0.
C9_EcoScoreFormula ==
    Returned =>
        LET n == ReportedEmissions[1]
            d == ReportedEmissions[2]
            sn == result.eco_score[1]
            sd == result.eco_score[2]
        IN  /\ IF n >= 1000 * d THEN sn = 0
               ELSE sn * 10 * d = (1000 * d - n) * sd
            /\ ReportedEmissions = <<0, 1>> => result.eco_score = <<100, 1>>
            /\ ReportedEmissions = <<500, 1>> => result.eco_score = <<50, 1>>
            /\ ReportedEmissions = <<1000, 1>> => result.eco_score = <<0, 1>>
            /\ ReportedEmissions = <<2000, 1>> => result.eco_score = <<0, 1>>

C9_Witness ==
    /\ Returned
    /\ result.path = "model"
    /\ ReportedEmissions = <<500, 1>>
    /\ result.eco_score = <<50, 1>>

\* C10: the eco score of every returned itinerary lies in [0,100].
C10_EcoScoreInRange ==
    Returned => QLe(QInt(0), result.eco_score) /\ QLe(result.eco_score, QInt(100))

\* C11: with both dates given trip_days is end - start + 1 whatever num_days
\* says, and 1 when the end date precedes the start date; with only
\* num_days given trip_days is num_days; trip_days is always positive and
\* is the num_days of the returned itinerary.
C11_TripDays ==
    (trip # None) =>
        /\ (~IsNone(request.start_date) /\ ~IsNone(request.end_date))
              => trip.trip_days =
                   (IF request.end_date[1] < request.start_date[1] THEN 1
                    ELSE request.end_date[1] - request.start_date[1] + 1)
        /\ (IsNone(request.start_date) /\ IsNone(request.end_date)
              /\ ~IsNone(request.num_days))
              => trip.trip_days = request.num_days[1]
        /\ trip.trip_days > 0
        /\ Returned => result.num_days = trip.trip_days

C11_Witness ==
    /\ Returned
    /\ ~IsNone(request.start_date) /\ ~IsNone(request.end_date)
    /\ request.end_date[1] = request.start_date[1] + 2
    /\ request.num_days = Some(1)
    /\ result.num_days = 3

\* C12: when the flight provider raises, credentials or token are missing,
\* or it returns no offers, the flight search returns a non-empty list of
\* synthetic offers whose prices strictly increase along the list.
C12_FallbackPricesIncrease ==
    (/\ probe.fn = "fetch_flights" /\ probe.applied
     /\ \/ probe.answer.kind \in FlightCallFailures
        \/ probe.answer.raises
        \/ probe.answer.offers = <<>>)
    => /\ probe.out # <<>>
       /\ \A i \in DOMAIN probe.out : probe.out[i].source = "fallback"
       /\ \A i \in 1..(Len(probe.out) - 1) : probe.out[i].price < probe.out[i + 1].price

C12_Witness ==
    /\ probe.fn = "fetch_flights" /\ probe.applied
    /\ probe.answer.kind = "http_error"
    /\ Len(probe.out) = 20
    /\ probe.out[1].price = 39900

Range(seq) == {seq[i] : i \in DOMAIN seq}

\* the first balanced {...} span of a text, or None
FirstBalancedSpan(text) ==
    LET opens == {i \in DOMAIN text : text[i] = "{"}
        first == CHOOSE i \in opens : \A j \in opens : i <= j
        ends == {l \in first..Len(text) :
                    Depth(SubSeq(text, first, l), l - first + 1) = 0}
        last == CHOOSE l \in ends : \A m \in ends : l <= m
    IN  IF opens = {} THEN None
        ELSE IF ends = {} THEN None
        ELSE Some(SubSeq(text, first, last))

\* C13: a model text that is not JSON itself but embeds a JSON object as its
\* first balanced {...} span is extracted and parsed, whatever prose (braces
\* included) surrounds the object; a text without any {...} ends in the
\* deterministic fallback plan.
C13_FirstBalancedSpanParsed ==
    (reply # None /\ reply.kind = "text") =>
        LET span == FirstBalancedSpan(reply.text)
        IN  /\ (~IsJsonObject(reply.text) /\ ~IsNone(span) /\ IsJsonObject(span[1]))
                  => "Validated" \in Range(synth)
            /\ IsNone(span) => pc = "done" /\ result.path = "fallback"

Count(x, seq) == Cardinality({i \in DOMAIN seq : seq[i] = x})

NothingCalled ==
    /\ trip = None /\ coords = None /\ codes = None
    /\ \A p \in ProviderSet : fetch[p] = "idle" /\ outcome[p] = "none"
    /\ outcome["carbon"] = "none" /\ outcome["model"] = "none"
    /\ prompt = None /\ reply = None /\ synth = <<"NotStarted">>

\* C15: a request whose day count or budget is not positive is rejected as
\* invalid before the geocoder, a provider, the carbon estimate or the model
\* is called, and no itinerary is stored for it.
C15_InvalidRejectedBeforeIO ==
    ((~IsNone(request.num_days) /\ request.num_days[1] <= 0) \/ request.budget <= 0)
    => /\ pc \in {"received", "rejected"}
       /\ pc = "rejected" => error = "RequestValidationError"
       /\ NothingCalled
       /\ result = None
       /\ cache = None

C15_Witness ==
    /\ pc = "rejected"
    /\ request.num_days = Some(1)
    /\ request.budget = 0
    /\ NothingCalled /\ cache = None

\* C16: a flight for which the carbon-estimate API answers enters synthesis
\* with the API's figure; the local distance/cabin estimate stays only when
\* the API is not configured or fails for that flight.
C16_ExternalEstimatePreferred ==
    [][\A a \in CarbonPatterns(Len(flights), env) :
          EstimateFlights(a) =>
              \A i \in DOMAIN flights :
                  ~IsNone(a[i]) => flights'[i].emissions_kg = a[i]]_vars

\* C17: across requests a provider token is fetched only when none is cached
\* or the cached one is within 30 seconds of its expiry, whichever call
\* (airport lookup, flight search, lodging search) asks for it, and a token
\* handed out has not expired.
C17_TokenReused ==
    (probe.fn = "tokens" /\ probe.last.caller # "none") =>
        /\ probe.last.fetched =>
              \/ IsNone(probe.last.had)
              \/ probe.last.at >= probe.last.had[1] - 30
        /\ ~IsNone(probe.last.handed) => probe.last.at < probe.last.handed[1]

\* C18: a model response that parses but has no day list, or an empty one,
\* is replaced by the deterministic fallback plan with one entry per day;
\* no itinerary is returned with zero day entries.
C18_EmptyDayListFallsBack ==
    (Returned /\ reply # None /\ reply.kind = "text"
       /\ "Validated" \in Range(synth)
       /\ (reply.days = "absent" \/ result.days = <<>>))
    => /\ result.path = "fallback"
       /\ Len(result.days) = trip.trip_days

\* C19: the totals of the deterministic fallback plan are the lowest price
\* among the flight candidates plus the first lodging's nightly rate times
\* the nights, and that flight's emissions plus the lodging's per-night
\* emissions times the nights, for provider lists and synthetic lists alike.
C19_FallbackTotalsUseCheapest ==
    (Returned /\ result.path = "fallback" /\ flights # <<>> /\ hotels # <<>>) =>
        LET c == CHOOSE i \in DOMAIN flights :
                    \A j \in DOMAIN flights : flights[i].price <= flights[j].price
            nights == trip.trip_days
        IN  /\ result.totals.cost =
                  JNum(QInt(flights[c].price + hotels[1].nightly_rate * nights))
            /\ result.totals.emissions_kg =
                  JNum(QAdd(flights[c].emissions_kg,
                            QMulInt(hotels[1].emissions_kg, nights)))

\* transitions of the plan synthesizer; CallingModel -> Failed is the failed call
SynthTransitions ==
    { <<"NotStarted", "CallingModel">>,
      <<"CallingModel", "Validated">>, <<"CallingModel", "Malformed">>,
      <<"CallingModel", "Failed">>,
      <<"Malformed", "ExtractRetry">>,
      <<"ExtractRetry", "Validated">>, <<"ExtractRetry", "Failed">>,
      <<"Validated", "Done">>,
      <<"Failed", "Fallback">>, <<"Fallback", "Done">> }

Steps(seq) == {<<seq[i], seq[i + 1]>> : i \in 1..(Len(seq) - 1)}

NotAnObjectWithDayList ==
    /\ reply # None
    /\ \/ reply.kind = "nonstr"
       \/ reply.text = TextValue
       \/ reply.days = "nonlist"

FirstIndex(x, seq) ==
    IF x \in Range(seq) THEN CHOOSE i \in DOMAIN seq : seq[i] = x /\ \A j \in 1..(i - 1) : seq[j] # x
    ELSE 0

\* C21: resolve_airport_code answers from the static table (exact key, then
\* the key without its ", region" part) without any external call or token
\* fetch; otherwise the keyword search decides when it finds a code;
\* otherwise the radius search, made only with coordinates and only after
\* the keyword search found nothing; otherwise the code is absent.
C21_ResolutionOrder ==
    (probe.fn = "resolve_airport_code" /\ probe.applied) =>
        LET exact == CityToAirport(CityLower(probe.name))
            stripped == CityToAirport(CityOnly(CityLower(probe.name)))
            out == probe.out
            found(answer) == probe.token_ok /\ ~IsNone(answer)
        IN  /\ ~IsNone(exact) => out.code = exact /\ out.calls = <<>>
            /\ (IsNone(exact) /\ ~IsNone(stripped))
                  => out.code = stripped /\ out.calls = <<>>
            /\ (IsNone(exact) /\ IsNone(stripped) /\ found(probe.keyword))
                  => out.code = probe.keyword /\ "radius" \notin Range(out.calls)
            /\ "radius" \in Range(out.calls)
                  => /\ ~IsNone(probe.coordinates)
                     /\ IsNone(probe.keyword)
                     /\ FirstIndex("keyword", out.calls) > 0
                     /\ FirstIndex("keyword", out.calls) < FirstIndex("radius", out.calls)
            /\ (IsNone(exact) /\ IsNone(stripped) /\ ~found(probe.keyword))
                  => out.code = (IF ~IsNone(probe.coordinates) /\ probe.token_ok
                                 THEN probe.radius ELSE None)

C21_Witness ==
    /\ probe.fn = "resolve_airport_code" /\ probe.applied
    /\ probe.name = "Atlantis, XX"
    /\ probe.coordinates = <<0, 0>>
    /\ probe.out = [code |-> Some("ORY"),
                    calls |-> <<"token", "keyword", "token", "radius">>]

\* C22: in the pipeline, a destination that neither the static table nor the
\* keyword search resolves, and whose coordinates are known from the
\* preceding step, gets a radius search before its code is taken as absent.
C22_RadiusSearchTried ==
    (/\ codes # None
     /\ coords # None
     /\ coords.source = "geocoder"
     /\ IsNone(StaticAirport(request.destination))
     /\ "keyword" \in Range(codes.lookups)
     /\ codes.destination = request.destination)
        => "radius" \in Range(codes.lookups)

\* C23: when the coordinates of any segment's airports are unknown, the
\* total distance is the duration estimate (hours x 800 km, at least 500 km),
\* or 1500 km when the duration is not positive; never the sum over the
\* segments that are known.
C23_UnknownSegmentUsesDuration ==
    (/\ probe.fn = "total_distance_km"
     /\ probe.applied
     /\ \E i \in DOMAIN probe.segments : IsNone(SegmentDistanceKm(probe.segments[i])))
        => LET minutes == SeqSum([i \in DOMAIN probe.segments |->
                                    probe.segments[i].minutes])
           IN  probe.out = Some(IF minutes > 0 THEN QMax(QInt(500), Q(minutes * 40, 3))
                                ELSE QInt(1500))

\* C24: a lodging option's emissions are 15 kg per night, whatever the number
\* of nights, when the carbon API is not configured or fails or reports no
\* figure for it; when the API answers with the total of the stay, the
\* per-night figure is that total divided by the number of nights.
C24_LodgingPerNight ==
    [][\A a \in CarbonPatterns(Len(hotels), env) :
          EstimateHotels(a) =>
              \A i \in DOMAIN hotels :
                  hotels'[i].emissions_kg =
                      IF IsNone(a[i]) THEN QInt(15) ELSE QDivInt(a[i], trip.trip_days)]_vars

C24_Witness ==
    /\ pc = "synthesis"
    /\ trip.trip_days = MaxDays
    /\ Len(hotels) >= 2
    /\ hotels[1].emissions_kg = QDivInt(QInt(40), MaxDays)
    /\ hotels[2].emissions_kg = QInt(15)

\* positions of the candidates that have segments
WithSegments(options) == {i \in DOMAIN options : options[i].segments # <<>>}

\* the k-th of them, in candidate order
NthWithSegments(options, k) ==
    CHOOSE i \in WithSegments(options) :
        Cardinality({j \in WithSegments(options) : j <= i}) = k

\* C25: the flight summaries are, in candidate order, one per candidate that
\* has segments; each takes origin and departure from the candidate's first
\* segment, destination and arrival from its last, and an eco score of
\* max(0, min(100, 100 - emissions_kg)), between 0 and 100, a function of the
\* candidate's own emissions only.
C25_FlightSummaries ==
    (probe.fn = "summarize_flights" /\ probe.applied) =>
        /\ Len(probe.out) = Cardinality(WithSegments(probe.options))
        /\ \A k \in DOMAIN probe.out :
              LET o == probe.options[NthWithSegments(probe.options, k)]
                  f == probe.out[k]
                  raw == QSub(QInt(100), o.emissions_kg)
              IN  /\ f.origin = o.segments[1].origin
                  /\ f.departure = o.segments[1].departure
                  /\ f.destination = o.segments[Len(o.segments)].destination
                  /\ f.arrival = o.segments[Len(o.segments)].arrival
                  /\ f.eco_score = (IF QLt(raw, QInt(0)) THEN QInt(0)
                                    ELSE IF QLt(QInt(100), raw) THEN QInt(100) ELSE raw)
                  /\ QLe(QInt(0), f.eco_score) /\ QLe(f.eco_score, QInt(100))

C25_Witness ==
    /\ probe.fn = "summarize_flights" /\ probe.applied
    /\ Len(probe.options) = 2
    /\ probe.options[1].segments = <<>>
    /\ Len(probe.out) = 1
    /\ probe.out[1].origin = "JFK"
    /\ probe.out[1].destination = "CDG"
    /\ probe.out[1].departure = At("departure_date", 480)
    /\ probe.out[1].arrival = At("departure_date", 1100)
    /\ probe.out[1].eco_score = QInt(60)

\* C26: every flight candidate that reaches the construction of the
\* synthesis prompt, from the provider or from the synthetic generator, has
\* at least one segment.
C26_CandidatesHaveSegments ==
    (pc = "synthesis" \/ prompt # None) =>
        \A i \in DOMAIN flights : flights[i].segments # <<>>

\* C27: the coordinates the fetches are given are the geocoder's, unchanged,
\* whenever the geocoder returned coordinates (a latitude or longitude of 0
\* included); the built-in table or the default is used exactly when the
\* geocoder returned nothing; the request goes on in both cases.
C27_GeocoderCoordinatesKept ==
    [][\A a \in GeocodeAnswersIn(env) :
          Geocode(a) =>
              /\ pc' = "codes"
              /\ coords'.source \in {"table", "default"} <=> IsNone(a)
              /\ ~IsNone(a) => coords'.lat = a[1] /\ coords'.lng = a[2]]_vars

\* C28: the day_weather of a returned itinerary has exactly one snapshot per
\* date of the trip, from start_date to end_date in ascending order, so as
\* many as num_days, whether the snapshots are the provider's, placeholders
\* for dates the provider had nothing for, or the fallback generator's.
C28_OneSnapshotPerDate ==
    Returned =>
        /\ Len(result.day_weather) = result.num_days
        /\ Len(result.day_weather) = trip.end_date - trip.start_date + 1
        /\ \A i \in DOMAIN result.day_weather :
              result.day_weather[i].date = trip.start_date + i - 1

C28_Witness ==
    /\ Returned
    /\ Len(result.day_weather) = MaxDays
    /\ result.day_weather[1].source = "provider"
    /\ result.day_weather[MaxDays].source = "missing"

\* C29: no read of the itinerary cache, with a user id, without one, or of
\* the latest itinerary, returns an itinerary stored more than 24 hours
\* before the read.
C29_NoExpiredRead ==
    (/\ probe.fn = "cache"
     /\ probe.last.op \in {"get_itinerary", "get_latest_itinerary"}
     /\ ~IsNone(probe.last.out))
        => probe.last.at - probe.last.out[1].at <= CACHE_EXPIRY_HOURS

\* C30: the itinerary loaded into the context of a user's message was
\* generated by a request of that same user.
C30_OwnItineraryOnly ==
    (/\ probe.fn = "cache"
     /\ probe.last.op = "photon_message"
     /\ ~IsNone(probe.last.out))
        => probe.last.out[1].by = probe.last.user_id[1]

====
